---- MODULE Spec2Model ----
(***************************************************************************)
(* Model of delivops/task-deploy-action:                                   *)
(*   scripts/generate_task_def.py      (ECS task definition generator)     *)
(*   scripts/generate_step_function.py (Step Function template generator)  *)
(*                                                                         *)
(* Python strings that the code inspects character by character (strip,    *)
(* split, "in") are sequences of one-character strings; names that are     *)
(* only copied are TLA+ strings.  YAML values are tagged records, so that  *)
(* a missing key, a YAML null, a number, a string, a list and a mapping    *)
(* stay distinct, as they are for the Python code.  A Python dict is the   *)
(* ordered sequence of its <<key, value>> pairs; a key absent from the     *)
(* output dict is absent from the DOMAIN of the modelled record.           *)
(***************************************************************************)
EXTENDS Integers, Sequences, FiniteSets, TLC

\* ------------------------------------------------------------------ bounds
MaxAdditionalPorts == 2
MaxSecretFiles == 2
MaxImageLen == 5

\* ------------------------------------------------------------- YAML values
Missing == [t |-> "missing"]
Null == [t |-> "null"]
Str(s) == [t |-> "str", v |-> s]
Num(n) == [t |-> "int", v |-> n]
List(l) == [t |-> "list", v |-> l]
Map(pairs) == [t |-> "map", v |-> pairs]

Empty == [k \in {} |-> k]

SeqsUpTo(S, n) == UNION {[1..k -> S] : k \in 0..n}

\* dict.get(key, default) on a mapping value
DictGet(d, key, default) ==
  IF \E i \in 1..Len(d.v) : d.v[i][1] = key
    THEN d.v[CHOOSE i \in 1..Len(d.v) : d.v[i][1] = key][2]
    ELSE default

\* config.get(key, default) on the loaded top-level mapping
CfgGet(config, key, default) ==
  IF config[key] = Missing THEN default ELSE config[key]

\* Python truthiness of a value
Truthy(x) ==
  CASE x.t = "missing" -> FALSE
    [] x.t = "null" -> FALSE
    [] x.t = "int" -> x.v # 0
    [] OTHER -> Len(x.v) > 0

IsSpace(c) == c \in {" ", "\t", "\n"}

RECURSIVE LStrip(_)
LStrip(s) == IF Len(s) > 0 /\ IsSpace(Head(s)) THEN LStrip(Tail(s)) ELSE s

RECURSIVE RStrip(_)
RStrip(s) ==
  IF Len(s) > 0 /\ IsSpace(s[Len(s)]) THEN RStrip(SubSeq(s, 1, Len(s) - 1)) ELSE s

\* str.strip()
Strip(s) == RStrip(LStrip(s))

HasChar(s, c) == \E i \in 1..Len(s) : s[i] = c

FirstIndex(s, c) == CHOOSE i \in 1..Len(s) : s[i] = c /\ \A j \in 1..(i - 1) : s[j] # c

\* s.split(c)[0]
BeforeFirst(s, c) == IF HasChar(s, c) THEN SubSeq(s, 1, FirstIndex(s, c) - 1) ELSE s

\* c.join(s.split(c)[1:]), also s.split(c, 1)[1]
AfterFirst(s, c) == IF HasChar(s, c) THEN SubSeq(s, FirstIndex(s, c) + 1, Len(s)) ELSE <<>>

\* str(x) as an f-string renders a tag or a string
PyFormat(x) == IF x = Null THEN <<"N", "o", "n", "e">> ELSE x.v

\* ------------------------------------------------ generate_task_def.py
\* "public.ecr.aws/aws-observability/aws-otel-collector:latest"
OtelDefaultImage ==
  <<"p", "u", "b", "l", "i", "c", ".", "e", "c", "r", ".", "a", "w", "s",
    "/", "a", "w", "s", "-", "o", "b", "s", "e", "r", "v", "a", "b", "i",
    "l", "i", "t", "y", "/", "a", "w", "s", "-", "o", "t", "e", "l", "-",
    "c", "o", "l", "l", "e", "c", "t", "o", "r", ":", "l", "a", "t", "e",
    "s", "t">>

\* an argument of .strip() that is not a string raises AttributeError
OtelRaises(config) ==
  LET otel_collector == CfgGet(config, "otel_collector", Null) IN
    /\ otel_collector # Null
    /\ DictGet(otel_collector, "image_name", Str(<<>>)).t # "str"

otel_collector_image(config) ==
  LET otel_collector == CfgGet(config, "otel_collector", Null) IN
    IF otel_collector # Null
      THEN LET image == Strip(DictGet(otel_collector, "image_name", Str(<<>>)).v) IN
             IF ~Truthy(Str(image)) THEN Str(OtelDefaultImage) ELSE Str(image)
      ELSE Null

FluentBitRaises(config) ==
  LET fluent_bit_collector == CfgGet(config, "fluent_bit_collector", Map(<<>>)) IN
    /\ Truthy(fluent_bit_collector)
    /\ DictGet(fluent_bit_collector, "image_name", Str(<<>>)).t # "str"

use_fluent_bit(config) ==
  LET fluent_bit_collector == CfgGet(config, "fluent_bit_collector", Map(<<>>)) IN
    /\ Truthy(fluent_bit_collector)
    /\ Truthy(Str(Strip(DictGet(fluent_bit_collector, "image_name", Str(<<>>)).v)))

fluent_bit_image(config, registry) ==
  IF use_fluent_bit(config)
    THEN LET fluent_bit_collector == CfgGet(config, "fluent_bit_collector", Map(<<>>)) IN
           PyFormat(registry) \o <<"/">>
             \o Strip(DictGet(fluent_bit_collector, "image_name", Str(<<>>)).v)
    ELSE <<>>

secret_files(config) == CfgGet(config, "secret_files", List(<<>>)).v

has_secret_files(config) == Len(secret_files(config)) > 0

volumes(config) ==
  IF has_secret_files(config) THEN <<[name |-> "shared-volume", host |-> Empty]>> ELSE <<>>

\* mutant: a tag embedded in the name replaces the tag argument
parse_image_parts_embedded_wins(image_name, tag) ==
  LET name1 == IF HasChar(image_name, "/") /\ HasChar(BeforeFirst(image_name, "/"), ".")
                 THEN AfterFirst(image_name, "/")
                 ELSE image_name
  IN IF HasChar(name1, ":")
       THEN <<BeforeFirst(name1, ":"), Str(AfterFirst(name1, ":"))>>
       ELSE <<name1, tag>>

parse_image_parts(image_name, tag) ==
  LET name1 == IF HasChar(image_name, "/") /\ HasChar(BeforeFirst(image_name, "/"), ".")
                 THEN AfterFirst(image_name, "/")
                 ELSE image_name
  IN IF HasChar(name1, ":")
       THEN <<BeforeFirst(name1, ":"),
              IF ~Truthy(tag) THEN Str(AfterFirst(name1, ":")) ELSE tag>>
       ELSE <<name1, tag>>

image_uri(registry, image_name, tag) ==
  LET parts == parse_image_parts(image_name, tag) IN
    IF Truthy(registry)
      THEN PyFormat(registry) \o <<"/">> \o parts[1] \o <<":">> \o PyFormat(parts[2])
      ELSE parts[1] \o <<":">> \o PyFormat(parts[2])


AwsLogs(prefix) ==
  [logDriver |-> "awslogs", options |-> [awslogs_stream_prefix |-> prefix]]

PortMapping(name, port) ==
  [name |-> name, containerPort |-> port, hostPort |-> port,
   protocol |-> "tcp", appProtocol |-> "http"]

\* the mappings one entry of additional_ports contributes
EntryMappings(port_info) ==
  IF port_info.t = "map"
    THEN [i \in 1..Len(port_info.v) |-> PortMapping(port_info.v[i][1], port_info.v[i][2])]
    ELSE <<>>

RECURSIVE AdditionalMappings(_)
AdditionalMappings(additional_ports) ==
  IF additional_ports = <<>>
    THEN <<>>
    ELSE EntryMappings(Head(additional_ports)) \o AdditionalMappings(Tail(additional_ports))

\* mutant: the main port is appended after the additional ports
port_mappings_main_last(config) ==
  LET main_port == CfgGet(config, "port", Null)
      additional_ports == CfgGet(config, "additional_ports", List(<<>>)).v
  IN AdditionalMappings(additional_ports)
       \o (IF Truthy(main_port) THEN <<PortMapping("default", main_port)>> ELSE <<>>)

port_mappings(config) ==
  LET main_port == CfgGet(config, "port", Null)
      additional_ports == CfgGet(config, "additional_ports", List(<<>>)).v
  IN (IF Truthy(main_port) THEN <<PortMapping("default", main_port)>> ELSE <<>>)
       \o AdditionalMappings(additional_ports)

SharedMount == <<[sourceVolume |-> "shared-volume", containerPath |-> "/etc/secrets"]>>

\* mutant: the fluent-bit dependency is put before the init dependency
app_depends_on_fluent_first(config) ==
  (IF use_fluent_bit(config)
     THEN <<[containerName |-> "fluent-bit", condition |-> "START"]>>
     ELSE <<>>)
  \o (IF has_secret_files(config)
        THEN <<[containerName |-> "init-container-for-secret-files", condition |-> "SUCCESS"]>>
        ELSE <<>>)

\* mutant: app waits for the init container to START, not to end in SUCCESS
app_depends_on_init_start(config) ==
  (IF has_secret_files(config)
     THEN <<[containerName |-> "init-container-for-secret-files", condition |-> "START"]>>
     ELSE <<>>)
  \o (IF use_fluent_bit(config)
        THEN <<[containerName |-> "fluent-bit", condition |-> "START"]>>
        ELSE <<>>)

app_depends_on(config) ==
  (IF has_secret_files(config)
     THEN <<[containerName |-> "init-container-for-secret-files", condition |-> "SUCCESS"]>>
     ELSE <<>>)
  \o (IF use_fluent_bit(config)
        THEN <<[containerName |-> "fluent-bit", condition |-> "START"]>>
        ELSE <<>>)

\* mutant: the awslogs driver is kept when fluent-bit is enabled
app_log_configuration_always_awslogs(config) == AwsLogs("/default")

app_log_configuration(config) ==
  IF use_fluent_bit(config)
    THEN [logDriver |-> "awsfirelens", options |-> Empty]
    ELSE AwsLogs("/default")

app_container(config, args) ==
  [name |-> "app",
   image |-> image_uri(args.registry, args.image_name, args.tag),
   essential |-> TRUE,
   logConfiguration |-> app_log_configuration(config)]
  @@ (IF port_mappings(config) # <<>>
        THEN "portMappings" :> port_mappings(config) ELSE Empty)
  @@ (IF has_secret_files(config) THEN "mountPoints" :> SharedMount ELSE Empty)
  @@ (IF app_depends_on(config) # <<>>
        THEN "dependsOn" :> app_depends_on(config) ELSE Empty)

\* ",".join(secret_files)
RECURSIVE Join(_)
Join(names) ==
  IF names = <<>> THEN <<>>
  ELSE IF Len(names) = 1 THEN Head(names)
  ELSE Head(names) \o <<",">> \o Join(Tail(names))

init_container(config) ==
  [name |-> "init-container-for-secret-files",
   image |-> <<"a", "m", "a", "z", "o", "n", "/", "a", "w", "s", "-", "c", "l", "i">>,
   essential |-> FALSE,
   environment |-> <<[name |-> "SECRET_FILES", value |-> Join(secret_files(config))]>>,
   mountPoints |-> SharedMount,
   logConfiguration |-> AwsLogs("ssm-file-downloader")]

fluent_bit_container(config, args) ==
  [name |-> "fluent-bit",
   image |-> fluent_bit_image(config, args.registry),
   essential |-> FALSE,
   logConfiguration |-> AwsLogs("fluentbit"),
   firelensConfiguration |-> [type |-> "fluentbit"]]

otel_container(config) ==
  [name |-> "otel-collector",
   image |-> otel_collector_image(config).v,
   portMappings |->
     <<[name |-> "otel-collector-4317-tcp", containerPort |-> Num(4317),
        hostPort |-> Num(4317), protocol |-> "tcp", appProtocol |-> "grpc"],
       [name |-> "otel-collector-4318-tcp", containerPort |-> Num(4318),
        hostPort |-> Num(4318), protocol |-> "tcp"]>>,
   essential |-> FALSE,
   logConfiguration |-> [logDriver |-> "awslogs", options |-> Empty]]

\* mutant: the app container is appended before the init container
container_definitions_app_first(config, args) ==
  <<app_container(config, args)>>
  \o (IF has_secret_files(config) THEN <<init_container(config)>> ELSE <<>>)
  \o (IF use_fluent_bit(config) THEN <<fluent_bit_container(config, args)>> ELSE <<>>)
  \o (IF otel_collector_image(config) # Null THEN <<otel_container(config)>> ELSE <<>>)

container_definitions(config, args) ==
  (IF has_secret_files(config) THEN <<init_container(config)>> ELSE <<>>)
  \o <<app_container(config, args)>>
  \o (IF use_fluent_bit(config) THEN <<fluent_bit_container(config, args)>> ELSE <<>>)
  \o (IF otel_collector_image(config) # Null THEN <<otel_container(config)>> ELSE <<>>)

\* mutant: the volumes list is stored whether or not it is empty
task_definition_always_volumes(config, args) ==
  [containerDefinitions |-> container_definitions(config, args),
   networkMode |-> "awsvpc",
   requiresCompatibilities |-> <<"FARGATE">>,
   volumes |-> volumes(config)]

\* mutant: the volumes are never put into the document
task_definition_without_volumes(config, args) ==
  [containerDefinitions |-> container_definitions(config, args),
   networkMode |-> "awsvpc",
   requiresCompatibilities |-> <<"FARGATE">>]

task_definition(config, args) ==
  [containerDefinitions |-> container_definitions(config, args),
   networkMode |-> "awsvpc",
   requiresCompatibilities |-> <<"FARGATE">>]
  @@ (IF has_secret_files(config) /\ volumes(config) # <<>>
        THEN "volumes" :> volumes(config) ELSE Empty)

\* What a call of generate_task_definition ends with once the YAML is parsed:
\* the returned document, or the exception raised on the way.
generate_task_definition(config, args) ==
  IF config = Null
    THEN [raised |-> TRUE, exc |-> "AttributeError"]
  ELSE IF OtelRaises(config) \/ FluentBitRaises(config)
    THEN [raised |-> TRUE, exc |-> "AttributeError"]
  ELSE [raised |-> FALSE, doc |-> task_definition(config, args)]

\* ------------------------------------------- generate_step_function.py
Flt(w, d) == [t |-> "float", whole |-> w, tenths |-> d]

DigitChars == <<"0", "1", "2", "3", "4", "5", "6", "7", "8", "9">>

RECURSIVE IntToDigits(_)
IntToDigits(n) ==
  IF n < 10 THEN <<DigitChars[n + 1]>>
  ELSE IntToDigits(n \div 10) \o <<DigitChars[(n % 10) + 1]>>

\* str(x) of an int or a float, as an f-string renders it
PyStr(x) ==
  IF x.t = "int" THEN IntToDigits(x.v)
  ELSE IntToDigits(x.whole) \o <<".">> \o IntToDigits(x.tenths)

DefaultTimeoutSeconds == 3600
DefaultMaxAttempts == 3
DefaultBackoffRate == Flt(2, 0)
DefaultIntervalSeconds == 60

\* a .get on a value that is not a mapping raises AttributeError
WfRaises(config) ==
  \/ config = Null
  \/ CfgGet(config, "retryPolicy", Map(<<>>)) = Null

\* lines 43-46
terraform_retry_values(config) ==
  LET retry_policy == CfgGet(config, "retryPolicy", Map(<<>>)) IN
    [max_attempts |-> DictGet(retry_policy, "maxAttempts", Num(DefaultMaxAttempts)),
     backoff_rate |-> DictGet(retry_policy, "backoffRate", DefaultBackoffRate),
     interval_seconds |->
       DictGet(retry_policy, "intervalSeconds", Num(DefaultIntervalSeconds))]

\* lines 49-171: the variable defaults and the state machine of main.tf; a
\* value written var.<name> in the template is kept as the variable's name
terraform_content(config) ==
  LET r == terraform_retry_values(config)
      execution_config == CfgGet(config, "execution", Map(<<>>))
  IN [variables |->
        [name |-> CfgGet(config, "name", Str("default-workflow")).v,
         timeout_seconds |->
           PyStr(DictGet(execution_config, "timeoutSeconds", Num(DefaultTimeoutSeconds))),
         retry_attempts |-> PyStr(r.max_attempts),
         retry_interval_seconds |-> PyStr(r.interval_seconds),
         retry_backoff_rate |-> PyStr(r.backoff_rate)],
      state_machine |->
        [StartAt |-> "RunTask",
         TimeoutSeconds |-> "timeout_seconds",
         Retry |->
           <<[ErrorEquals |-> <<"States.TaskFailed">>,
              IntervalSeconds |-> "retry_interval_seconds",
              MaxAttempts |-> "retry_attempts",
              BackoffRate |-> "retry_backoff_rate"]>>]]

\* mutant: the SAM copy of the defaults drifts from the Terraform copy
sam_retry_values_other_default(config) ==
  LET retry_policy == CfgGet(config, "retryPolicy", Map(<<>>)) IN
    [max_attempts |-> DictGet(retry_policy, "maxAttempts", Num(DefaultMaxAttempts)),
     backoff_rate |-> DictGet(retry_policy, "backoffRate", DefaultBackoffRate),
     interval_seconds |-> DictGet(retry_policy, "intervalSeconds", Num(30))]

\* lines 193-196
sam_retry_values(config) ==
  LET retry_policy == CfgGet(config, "retryPolicy", Map(<<>>)) IN
    [max_attempts |-> DictGet(retry_policy, "maxAttempts", Num(DefaultMaxAttempts)),
     backoff_rate |-> DictGet(retry_policy, "backoffRate", DefaultBackoffRate),
     interval_seconds |->
       DictGet(retry_policy, "intervalSeconds", Num(DefaultIntervalSeconds))]

\* lines 201-284: the state machine of template.yaml; yaml.dump writes ints
\* and floats as YAML ints and floats, so the values are kept as they are
sam_template(config) ==
  LET r == sam_retry_values(config)
      execution_config == CfgGet(config, "execution", Map(<<>>))
  IN [StateMachineName |-> CfgGet(config, "name", Str("default-workflow")).v,
      Definition |->
        [StartAt |-> "RunTask",
         TimeoutSeconds |->
           DictGet(execution_config, "timeoutSeconds", Num(DefaultTimeoutSeconds)),
         Retry |->
           <<[ErrorEquals |-> <<"States.TaskFailed">>,
              IntervalSeconds |-> r.interval_seconds,
              MaxAttempts |-> r.max_attempts,
              BackoffRate |-> r.backoff_rate]>>]]

\* ------------------------------------------ inputs of the workflow CLI
OptionalPair(key, values) == {<<>>} \cup {<<<<key, v>>>> : v \in values}

RetryPolicies ==
  {Missing, Null}
    \cup {Map(a \o b \o c) :
            a \in OptionalPair("maxAttempts", {Num(5), Num(0)}),
            b \in OptionalPair("backoffRate", {Flt(1, 5), Num(2)}),
            c \in OptionalPair("intervalSeconds", {Num(30)})}

WorkflowConfigs ==
  [name : {Missing, Str("wf")},
   retryPolicy : RetryPolicies,
   execution : {Missing, Map(<<<<"timeoutSeconds", Num(120)>>>>)}]

WorkflowConfigFiles ==
  {[t |-> "absent"], [t |-> "malformed"], [t |-> "doc", v |-> Null]}
    \cup {[t |-> "doc", v |-> c] : c \in WorkflowConfigs}

\* --------------------------------------------- inputs of the task-def CLI
SecretFilesValues ==
  {Missing} \cup {List(s) : s \in SeqsUpTo({<<"s", "1">>}, MaxSecretFiles)}

FluentBlocks ==
  {Missing, Null, Map(<<>>),
   Map(<<<<"image_name", Null>>>>),
   Map(<<<<"image_name", Str(<<>>)>>>>),
   Map(<<<<"image_name", Str(<<" ", "f", "b", " ">>)>>>>)}

OtelBlocks ==
  {Missing, Null, Map(<<>>),
   Map(<<<<"image_name", Null>>>>),
   Map(<<<<"image_name", Str(<<" ">>)>>>>),
   Map(<<<<"image_name", Str(<<"o", "t">>)>>>>)}

PortValues == {Missing, Num(0), Num(8080)}

PortEntries ==
  {Num(9090),
   Map(<<<<"metrics", Num(9090)>>>>),
   Map(<<<<"metrics", Num(9090)>>, <<"admin", Num(9091)>>>>)}

AdditionalPortsValues ==
  {Missing} \cup {List(s) : s \in SeqsUpTo(PortEntries, MaxAdditionalPorts)}

WorkloadConfigs ==
  [secret_files : SecretFilesValues,
   fluent_bit_collector : FluentBlocks,
   otel_collector : OtelBlocks,
   port : PortValues,
   additional_ports : AdditionalPortsValues]

\* the file at yaml_file: no such file, text that is not YAML, an empty
\* document (safe_load returns None), or a document holding a mapping
YamlFiles ==
  {[t |-> "absent"], [t |-> "malformed"], [t |-> "doc", v |-> Null]}
    \cup {[t |-> "doc", v |-> c] : c \in WorkloadConfigs}

CliArgs ==
  {[registry |-> Str(<<"r">>), image_name |-> <<"x", ".", "y", "/", "a", ":", "2">>,
    tag |-> Str(<<"1">>)]}

VARIABLES
  yaml_file,          \* content of the file named by args.yaml_file
  args,               \* parsed command line
  out_parent_exists,  \* whether the directory of args.output exists
  pc,                 \* position in the __main__ block
  config,             \* result of yaml.safe_load
  main_td,            \* task_definition of the __main__ block
  out_file,           \* the file at args.output
  exc,                \* the exception in flight, <<>> when none
  stdout,
  stderr,
  exit_code,          \* <<>> while running, <<n>> once exited
  pi_image_name,      \* parse_image_parts: argument image_name
  pi_tag,             \* parse_image_parts: argument tag
  pi_result,          \* parse_image_parts: returned pair, NoDoc before the call
  wf_config_file,     \* generate_step_function.py: the file at --config
  wf_dir_exists,      \* whether the --output-dir directory exists
  wf_pc,              \* position in main()
  wf_config,          \* result of load_config
  wf_terraform,       \* terraform_content once built
  wf_main_tf,         \* the file <output_dir>/main.tf
  wf_template,        \* the file <output_dir>/template.yaml
  wf_stdout,
  wf_stderr,
  wf_exit_code        \* <<>> while running, <<n>> once exited

cli_vars ==
  <<yaml_file, args, out_parent_exists, pc, config, main_td, out_file, exc,
    stdout, stderr, exit_code>>

pi_vars == <<pi_image_name, pi_tag, pi_result>>

wf_vars ==
  <<wf_config_file, wf_dir_exists, wf_pc, wf_config, wf_terraform, wf_main_tf,
    wf_template, wf_stdout, wf_stderr, wf_exit_code>>

vars == <<cli_vars, pi_vars, wf_vars>>

NoDoc == [t |-> "none"]

Untouched == [state |-> "untouched"]

\* the values of the variables of a program that is not the one running
PiIdle == pi_image_name = <<>> /\ pi_tag = Null /\ pi_result = NoDoc

WfIdle ==
  /\ wf_config_file = [t |-> "absent"]
  /\ wf_dir_exists = FALSE
  /\ wf_pc = "idle"
  /\ wf_config = NoDoc
  /\ wf_terraform = NoDoc
  /\ wf_main_tf = Untouched
  /\ wf_template = Untouched
  /\ wf_stdout = <<>>
  /\ wf_stderr = <<>>
  /\ wf_exit_code = <<>>

CliIdle ==
  /\ yaml_file = [t |-> "absent"]
  /\ args = Empty
  /\ out_parent_exists = FALSE
  /\ pc = "idle"
  /\ config = NoDoc
  /\ main_td = NoDoc
  /\ out_file = Untouched
  /\ exc = <<>>
  /\ stdout = <<>>
  /\ stderr = <<>>
  /\ exit_code = <<>>

Init ==
  /\ PiIdle
  /\ WfIdle
  /\ yaml_file \in YamlFiles
  /\ args \in CliArgs
  /\ out_parent_exists \in BOOLEAN
  /\ pc = "load"
  /\ config = NoDoc
  /\ main_td = NoDoc
  /\ out_file = Untouched
  /\ exc = <<>>
  /\ stdout = <<>>
  /\ stderr = <<>>
  /\ exit_code = <<>>

Raise(e) == pc' = "except" /\ exc' = <<e>>

\* mutant: the output file is opened before the config is read
ReadYaml_output_opened_first ==
  /\ pc = "load"
  /\ out_file' = IF out_parent_exists THEN [state |-> "truncated"] ELSE out_file
  /\ IF yaml_file.t = "absent"
       THEN Raise("FileNotFoundError") /\ UNCHANGED config
     ELSE IF yaml_file.t = "malformed"
       THEN Raise("YAMLError") /\ UNCHANGED config
     ELSE config' = yaml_file.v /\ pc' = "assemble" /\ UNCHANGED exc
  /\ UNCHANGED <<pi_vars, wf_vars>>
  /\ UNCHANGED <<yaml_file, args, out_parent_exists, main_td, stdout,
                 stderr, exit_code>>

\* lines 23-24: open the YAML file and parse it
ReadYaml ==
  /\ pc = "load"
  /\ IF yaml_file.t = "absent"
       THEN Raise("FileNotFoundError") /\ UNCHANGED config
     ELSE IF yaml_file.t = "malformed"
       THEN Raise("YAMLError") /\ UNCHANGED config
     ELSE config' = yaml_file.v /\ pc' = "assemble" /\ UNCHANGED exc
  /\ UNCHANGED <<pi_vars, wf_vars>>
  /\ UNCHANGED <<yaml_file, args, out_parent_exists, main_td, out_file, stdout,
                 stderr, exit_code>>

\* lines 27-356: assemble the document; the image line is printed at 210 and
\* the replica_count line at 354, both after every statement that can raise
Assemble ==
  /\ pc = "assemble"
  /\ LET r == generate_task_definition(config, args) IN
       IF r.raised
         THEN Raise(r.exc) /\ UNCHANGED <<main_td, stdout>>
         ELSE /\ main_td' = r.doc
              /\ stdout' = stdout \o <<"image", "replica_count">>
              /\ pc' = "open"
              /\ UNCHANGED exc
  /\ UNCHANGED <<pi_vars, wf_vars>>
  /\ UNCHANGED <<yaml_file, args, out_parent_exists, config, out_file, stderr,
                 exit_code>>

\* line 386: open(args.output, 'w') truncates the file, or raises when the
\* directory is missing or the path cannot be written
OpenOutput ==
  /\ pc = "open"
  /\ \/ /\ out_parent_exists
        /\ out_file' = [state |-> "truncated"]
        /\ pc' = "dump"
        /\ UNCHANGED exc
     \/ /\ ~out_parent_exists
        /\ Raise("FileNotFoundError")
        /\ UNCHANGED out_file
     \/ /\ out_parent_exists
        /\ Raise("PermissionError")
        /\ UNCHANGED out_file
  /\ UNCHANGED <<pi_vars, wf_vars>>
  /\ UNCHANGED <<yaml_file, args, out_parent_exists, config, main_td, stdout,
                 stderr, exit_code>>

\* line 387: json.dump writes the document, or raises part-way (a value json
\* cannot encode, an I/O error)
DumpJson ==
  /\ pc = "dump"
  /\ \/ /\ out_file' = [state |-> "written", doc |-> main_td]
        /\ pc' = "print"
        /\ UNCHANGED exc
     \/ /\ out_file' = [state |-> "partial"]
        /\ Raise("OSError")
  /\ UNCHANGED <<pi_vars, wf_vars>>
  /\ UNCHANGED <<yaml_file, args, out_parent_exists, config, main_td, stdout,
                 stderr, exit_code>>

\* lines 389-393, then the script ends
PrintSuccess ==
  /\ pc = "print"
  /\ stdout' = stdout \o <<"task_definition", "written">>
  /\ pc' = "exited"
  /\ exit_code' = <<0>>
  /\ UNCHANGED <<pi_vars, wf_vars>>
  /\ UNCHANGED <<yaml_file, args, out_parent_exists, config, main_td, out_file,
                 exc, stderr>>

\* mutant: the handler prints the message and lets the script end normally
ExceptHandler_no_exit ==
  /\ pc = "except"
  /\ stderr' = stderr \o <<"Error generating task definition">>
  /\ pc' = "exited"
  /\ exit_code' = <<0>>
  /\ UNCHANGED <<pi_vars, wf_vars>>
  /\ UNCHANGED <<yaml_file, args, out_parent_exists, config, main_td, out_file,
                 exc, stdout>>

\* lines 395-397
ExceptHandler ==
  /\ pc = "except"
  /\ stderr' = stderr \o <<"Error generating task definition">>
  /\ pc' = "exited"
  /\ exit_code' = <<1>>
  /\ UNCHANGED <<pi_vars, wf_vars>>
  /\ UNCHANGED <<yaml_file, args, out_parent_exists, config, main_td, out_file,
                 exc, stdout>>

Next ==
  \/ ReadYaml
  \/ Assemble
  \/ OpenOutput
  \/ DumpJson
  \/ PrintSuccess
  \/ ExceptHandler

Spec == Init /\ [][Next]_vars

\* The same program on the configs without port keys: port and
\* additional_ports reach no statement that can raise, so they decide no exit.
InitExit ==
  /\ Init
  /\ yaml_file.t = "doc" /\ yaml_file.v # Null =>
       yaml_file.v.port = Missing /\ yaml_file.v.additional_ports = Missing

SpecExit == InitExit /\ [][Next]_vars

\* ------------------------------------------- parse_image_parts on its own
ImageChars == {"a", ".", "/", ":"}

ImageNames == SeqsUpTo(ImageChars, MaxImageLen)

Tags == {Null, Str(<<>>), Str(<<"t">>)}

InitImage ==
  /\ CliIdle
  /\ WfIdle
  /\ pi_image_name \in ImageNames
  /\ pi_tag \in Tags
  /\ pi_result = NoDoc

\* line 111: image_name_clean, tag_clean = parse_image_parts(image_name, tag)
ParseImage ==
  /\ pi_result = NoDoc
  /\ LET parts == parse_image_parts(pi_image_name, pi_tag) IN
       pi_result' = [name |-> parts[1], tag |-> parts[2]]
  /\ UNCHANGED <<pi_image_name, pi_tag>>
  /\ UNCHANGED <<cli_vars, wf_vars>>

NextImage == ParseImage

SpecImage == InitImage /\ [][NextImage]_vars

\* ------------------------------------- generate_step_function.py, main()
InitWorkflow ==
  /\ CliIdle
  /\ PiIdle
  /\ wf_config_file \in WorkflowConfigFiles
  /\ wf_dir_exists \in BOOLEAN
  /\ wf_pc = "load"
  /\ wf_config = NoDoc
  /\ wf_terraform = NoDoc
  /\ wf_main_tf = Untouched
  /\ wf_template = Untouched
  /\ wf_stdout = <<>>
  /\ wf_stderr = <<>>
  /\ wf_exit_code = <<>>

\* an exception nothing catches: the traceback goes to stderr, exit status 1
WfCrash(e) ==
  /\ wf_pc' = "exited"
  /\ wf_stderr' = wf_stderr \o <<"Traceback", e>>
  /\ wf_exit_code' = <<1>>

\* mutant: the handler prints the message and returns None instead of exiting
WfLoadConfig_no_exit ==
  /\ wf_pc = "load"
  /\ IF wf_config_file.t = "doc"
       THEN /\ wf_config' = wf_config_file.v
            /\ UNCHANGED wf_stdout
       ELSE /\ wf_config' = Null
            /\ wf_stdout' = wf_stdout \o <<"Error loading configuration">>
  /\ wf_pc' = "makedirs"
  /\ UNCHANGED <<wf_config_file, wf_dir_exists, wf_terraform, wf_main_tf,
                 wf_template, wf_stderr, wf_exit_code>>
  /\ UNCHANGED <<cli_vars, pi_vars>>

\* lines 20-27, called at 295
WfLoadConfig ==
  /\ wf_pc = "load"
  /\ IF wf_config_file.t = "doc"
       THEN /\ wf_config' = wf_config_file.v
            /\ wf_pc' = "makedirs"
            /\ UNCHANGED <<wf_stdout, wf_exit_code>>
       ELSE /\ wf_stdout' = wf_stdout \o <<"Error loading configuration">>
            /\ wf_pc' = "exited"
            /\ wf_exit_code' = <<1>>
            /\ UNCHANGED wf_config
  /\ UNCHANGED <<wf_config_file, wf_dir_exists, wf_terraform, wf_main_tf,
                 wf_template, wf_stderr>>
  /\ UNCHANGED <<cli_vars, pi_vars>>

\* line 32: os.makedirs(output_dir, exist_ok=True)
WfMakeDirs ==
  /\ wf_pc = "makedirs"
  /\ \/ /\ wf_dir_exists' = TRUE
        /\ wf_pc' = "build"
        /\ UNCHANGED <<wf_stderr, wf_exit_code>>
     \/ /\ ~wf_dir_exists
        /\ WfCrash("PermissionError")
        /\ UNCHANGED wf_dir_exists
  /\ UNCHANGED <<wf_config_file, wf_config, wf_terraform, wf_main_tf, wf_template,
                 wf_stdout>>
  /\ UNCHANGED <<cli_vars, pi_vars>>

\* lines 35-171
WfBuildTerraform ==
  /\ wf_pc = "build"
  /\ IF WfRaises(wf_config)
       THEN WfCrash("AttributeError") /\ UNCHANGED wf_terraform
       ELSE /\ wf_terraform' = terraform_content(wf_config)
            /\ wf_pc' = "write_tf"
            /\ UNCHANGED <<wf_stderr, wf_exit_code>>
  /\ UNCHANGED <<wf_config_file, wf_dir_exists, wf_config, wf_main_tf, wf_template,
                 wf_stdout>>
  /\ UNCHANGED <<cli_vars, pi_vars>>

\* lines 174-179
WfWriteMainTf ==
  /\ wf_pc = "write_tf"
  /\ \/ /\ wf_main_tf' = [state |-> "written", content |-> wf_terraform]
        /\ wf_stdout' = wf_stdout \o <<"Successfully generated Terraform files">>
        /\ wf_pc' = "write_sam"
        /\ UNCHANGED <<wf_stderr, wf_exit_code>>
     \/ /\ wf_main_tf' \in {Untouched, [state |-> "partial"]}
        /\ WfCrash("OSError")
        /\ UNCHANGED wf_stdout
  /\ UNCHANGED <<wf_config_file, wf_dir_exists, wf_config, wf_terraform, wf_template>>
  /\ UNCHANGED <<cli_vars, pi_vars>>

\* lines 182-291: generate_sam_template
WfWriteTemplate ==
  /\ wf_pc = "write_sam"
  /\ IF WfRaises(wf_config)
       THEN WfCrash("AttributeError") /\ UNCHANGED <<wf_template, wf_stdout>>
       ELSE \/ /\ wf_template' = [state |-> "written", content |-> sam_template(wf_config)]
               /\ wf_stdout' = wf_stdout \o <<"Successfully generated SAM template">>
               /\ wf_pc' = "done"
               /\ UNCHANGED <<wf_stderr, wf_exit_code>>
            \/ /\ wf_template' \in {Untouched, [state |-> "partial"]}
               /\ WfCrash("OSError")
               /\ UNCHANGED wf_stdout
  /\ UNCHANGED <<wf_config_file, wf_dir_exists, wf_config, wf_terraform, wf_main_tf>>
  /\ UNCHANGED <<cli_vars, pi_vars>>

\* line 297, then main() returns
WfPrintDone ==
  /\ wf_pc = "done"
  /\ wf_stdout' = wf_stdout \o <<"Done!">>
  /\ wf_pc' = "exited"
  /\ wf_exit_code' = <<0>>
  /\ UNCHANGED <<wf_config_file, wf_dir_exists, wf_config, wf_terraform, wf_main_tf,
                 wf_template, wf_stderr>>
  /\ UNCHANGED <<cli_vars, pi_vars>>

NextWorkflow ==
  \/ WfLoadConfig
  \/ WfMakeDirs
  \/ WfBuildTerraform
  \/ WfWriteMainTf
  \/ WfWriteTemplate
  \/ WfPrintDone

SpecWorkflow == InitWorkflow /\ [][NextWorkflow]_vars

\* ------------------------------------------------------------------ claims
\* What the claims say of a config, stated on the config itself.
Generated == main_td # NoDoc

SecretFilesNonEmpty ==
  config.secret_files.t = "list" /\ Len(config.secret_files.v) > 0

\* fluent_bit_collector.image_name is non-empty after trimming
FluentBitEnabled ==
  LET b == config.fluent_bit_collector IN
    /\ b.t = "map"
    /\ \E i \in 1..Len(b.v) :
         /\ b.v[i][1] = "image_name"
         /\ b.v[i][2].t = "str"
         /\ \E j \in 1..Len(b.v[i][2].v) : ~IsSpace(b.v[i][2].v[j])

\* an otel_collector block is present
OtelEnabled == config.otel_collector.t = "map"

Containers == main_td.containerDefinitions

ContainerNames == [i \in 1..Len(Containers) |-> Containers[i].name]

HasContainer(n) == \E i \in 1..Len(Containers) : Containers[i].name = n

Container(n) == Containers[CHOOSE i \in 1..Len(Containers) : Containers[i].name = n]

DependsOnOf(c) == IF "dependsOn" \in DOMAIN c THEN c.dependsOn ELSE <<>>

InitDependency ==
  [containerName |-> "init-container-for-secret-files", condition |-> "SUCCESS"]

FluentBitDependency == [containerName |-> "fluent-bit", condition |-> "START"]

\* C1: the container list of every generated document is the subsequence of
\* [init-container-for-secret-files, app, fluent-bit, otel-collector] made of
\* the enabled containers, in that order, app always present, none twice.
C1_ContainerOrder ==
  Generated =>
    ContainerNames =
      (IF SecretFilesNonEmpty THEN <<"init-container-for-secret-files">> ELSE <<>>)
      \o <<"app">>
      \o (IF FluentBitEnabled THEN <<"fluent-bit">> ELSE <<>>)
      \o (IF OtelEnabled THEN <<"otel-collector">> ELSE <<>>)

C1_Witness ==
  /\ Generated
  /\ SecretFilesNonEmpty /\ FluentBitEnabled /\ OtelEnabled
  /\ Len(Containers) = 4

\* C2: the app container's log driver is awsfirelens exactly when the
\* fluent-bit container is in the document, and awslogs otherwise.
C2_AppLogDriver ==
  Generated =>
    Container("app").logConfiguration.logDriver =
      IF HasContainer("fluent-bit") THEN "awsfirelens" ELSE "awslogs"

C2_Witness ==
  /\ Generated
  /\ HasContainer("fluent-bit")
  /\ Container("app").logConfiguration.logDriver = "awsfirelens"

\* C3: app's dependsOn holds the init entry (SUCCESS) exactly when secret_files
\* is non-empty and the fluent-bit entry (START) exactly when fluent-bit is
\* enabled, init first; with neither, app has no dependsOn key.
C3_AppDependsOn ==
  Generated =>
    LET expected ==
          (IF SecretFilesNonEmpty THEN <<InitDependency>> ELSE <<>>)
          \o (IF FluentBitEnabled THEN <<FluentBitDependency>> ELSE <<>>)
    IN /\ DependsOnOf(Container("app")) = expected
       /\ ("dependsOn" \in DOMAIN Container("app")) <=> (expected # <<>>)

C3_Witness ==
  /\ Generated
  /\ SecretFilesNonEmpty /\ FluentBitEnabled
  /\ Container("app").dependsOn = <<InitDependency, FluentBitDependency>>

C3_WitnessNoKey ==
  /\ Generated
  /\ ~SecretFilesNonEmpty /\ ~FluentBitEnabled
  /\ "dependsOn" \notin DOMAIN Container("app")

DependsOnInit(c) ==
  \E i \in 1..Len(DependsOnOf(c)) : DependsOnOf(c)[i] = InitDependency

Sidecars == {"fluent-bit", "otel-collector"}

\* C4 as stated: with secret_files non-empty, app and every sidecar after it
\* depend on the init container with condition SUCCESS.
C4_AsStated ==
  (Generated /\ SecretFilesNonEmpty) =>
    \A i \in 1..Len(Containers) :
      Containers[i].name \in {"app"} \cup Sidecars => DependsOnInit(Containers[i])

\* C4 amended: with secret_files non-empty, the app container depends on the
\* init container with condition SUCCESS; the fluent-bit and otel-collector
\* sidecars carry no dependsOn key.
C4_OnlyAppDependsOnInit ==
  (Generated /\ SecretFilesNonEmpty) =>
    /\ DependsOnInit(Container("app"))
    /\ \A i \in 1..Len(Containers) :
         Containers[i].name \in Sidecars => "dependsOn" \notin DOMAIN Containers[i]

C4_Witness ==
  /\ Generated
  /\ SecretFilesNonEmpty
  /\ HasContainer("fluent-bit") /\ HasContainer("otel-collector")
  /\ DependsOnInit(Container("app"))

\* C5: the document has a volumes key exactly when secret_files is non-empty,
\* and then it holds the one volume shared-volume.
C5_Volumes ==
  Generated =>
    /\ ("volumes" \in DOMAIN main_td) <=> SecretFilesNonEmpty
    /\ "volumes" \in DOMAIN main_td =>
         /\ Len(main_td.volumes) = 1
         /\ main_td.volumes[1].name = "shared-volume"

C5_Witness ==
  /\ Generated
  /\ SecretFilesNonEmpty
  /\ "volumes" \in DOMAIN main_td

C5_WitnessEmptyList ==
  /\ Generated
  /\ config.secret_files = List(<<>>)
  /\ "volumes" \notin DOMAIN main_td

\* C6, parse_image_parts.  The claim's terms, stated on the argument itself:
\* the length of a registry prefix (a first '/'-separated segment holding a
\* '.', with its '/'), 0 when there is none
RegistryPrefixLen(n) ==
  IF \E k \in 1..Len(n) :
       /\ n[k] = "/"
       /\ \A j \in 1..(k - 1) : n[j] # "/"
       /\ \E j \in 1..(k - 1) : n[j] = "."
    THEN CHOOSE k \in 1..Len(n) : n[k] = "/" /\ \A j \in 1..(k - 1) : n[j] # "/"
    ELSE 0

WithoutRegistry(n) == SubSeq(n, RegistryPrefixLen(n) + 1, Len(n))

HasEmbeddedTag(n) == \E k \in 1..Len(WithoutRegistry(n)) : WithoutRegistry(n)[k] = ":"

Parsed == pi_result # NoDoc

\* the name part: the registry prefix is stripped and an embedded ':tag' is
\* split out of the name
C6_NameSplit ==
  LET base == WithoutRegistry(pi_image_name) IN
    IF HasEmbeddedTag(pi_image_name)
      THEN \E k \in 1..Len(base) :
             /\ base[k] = ":"
             /\ \A j \in 1..(k - 1) : base[j] # ":"
             /\ pi_result.name = SubSeq(base, 1, k - 1)
      ELSE pi_result.name = base

EmbeddedTag ==
  LET base == WithoutRegistry(pi_image_name)
      k == CHOOSE i \in 1..Len(base) : base[i] = ":" /\ \A j \in 1..(i - 1) : base[j] # ":"
  IN Str(SubSeq(base, k + 1, Len(base)))

\* C6 as stated: the returned tag is the explicit tag argument whenever one is
\* given (any tag other than None), the embedded tag only when none is given,
\* and the original None when there is neither.
C6_AsStated ==
  Parsed =>
    /\ C6_NameSplit
    /\ pi_tag # Null => pi_result.tag = pi_tag
    /\ (pi_tag = Null /\ HasEmbeddedTag(pi_image_name)) => pi_result.tag = EmbeddedTag
    /\ (pi_tag = Null /\ ~HasEmbeddedTag(pi_image_name)) => pi_result.tag = Null

\* C6 amended: the returned tag is the tag argument whenever a non-empty one is
\* given; with a tag argument of None or '' it is the embedded tag when the
\* name has one, and the tag argument unchanged (None or '') otherwise.
C6_ParseImageParts ==
  Parsed =>
    /\ C6_NameSplit
    /\ (pi_tag \notin {Null, Str(<<>>)}) => pi_result.tag = pi_tag
    /\ (pi_tag \in {Null, Str(<<>>)} /\ HasEmbeddedTag(pi_image_name))
         => pi_result.tag = EmbeddedTag
    /\ (pi_tag \in {Null, Str(<<>>)} /\ ~HasEmbeddedTag(pi_image_name))
         => pi_result.tag = pi_tag

\* an explicit tag overriding an embedded one, behind a registry prefix
C6_Witness ==
  /\ Parsed
  /\ pi_image_name = <<".", "/", "a", ":", "a">>
  /\ pi_tag = Str(<<"t">>)
  /\ pi_result = [name |-> <<"a">>, tag |-> Str(<<"t">>)]

\* ('a.a/a', None) -> ('a', None), the shape of ('myregistry.com/app', None)
C6_WitnessRegistry ==
  /\ Parsed
  /\ pi_image_name = <<"a", ".", "a", "/", "a">>
  /\ pi_tag = Null
  /\ pi_result = [name |-> <<"a">>, tag |-> Null]

\* ('a:a', None) -> ('a', 'a'), the shape of ('app:v2', None)
C6_WitnessEmbedded ==
  /\ Parsed
  /\ pi_image_name = <<"a", ":", "a">>
  /\ pi_tag = Null
  /\ pi_result = [name |-> <<"a">>, tag |-> Str(<<"a">>)]

\* the document assembly has ended, with a document or with an exception
AssemblyEnded == config \notin {NoDoc, Null} /\ pc \notin {"load", "assemble"}

\* otel_collector.image_name is missing or blank (a YAML null, '', spaces)
OtelImageBlankOrMissing ==
  LET b == config.otel_collector IN
    \A i \in 1..Len(b.v) :
      b.v[i][1] = "image_name" =>
        \/ b.v[i][2] = Null
        \/ /\ b.v[i][2].t = "str"
           /\ \A j \in 1..Len(b.v[i][2].v) : IsSpace(b.v[i][2].v[j])

\* C7: fluent-bit is included exactly when fluent_bit_collector.image_name is
\* non-empty after trimming; otel-collector is included exactly when an
\* otel_collector block is present, with the public default image when the
\* block's image_name is blank or missing.
C7_AsStated ==
  AssemblyEnded =>
    /\ Generated
    /\ HasContainer("fluent-bit") <=> FluentBitEnabled
    /\ HasContainer("otel-collector") <=> OtelEnabled
    /\ (OtelEnabled /\ OtelImageBlankOrMissing) =>
         Container("otel-collector").image = OtelDefaultImage

\* What does hold: C7 on the runs that return a document.
C7_OnReturnedDocuments ==
  Generated =>
    /\ HasContainer("fluent-bit") <=> FluentBitEnabled
    /\ HasContainer("otel-collector") <=> OtelEnabled
    /\ (OtelEnabled /\ OtelImageBlankOrMissing) =>
         Container("otel-collector").image = OtelDefaultImage

C7_WitnessDefaultImage ==
  /\ Generated
  /\ config.otel_collector = Map(<<<<"image_name", Str(<<" ">>)>>>>)
  /\ Container("otel-collector").image = OtelDefaultImage

\* C8.  The app container's port mappings, [] when the key is absent.
AppPortMappings ==
  IF "portMappings" \in DOMAIN Container("app")
    THEN Container("app").portMappings
    ELSE <<>>

AdditionalPortEntries ==
  IF config.additional_ports = Missing THEN <<>> ELSE config.additional_ports.v

PortShape(m) ==
  /\ m.hostPort = m.containerPort
  /\ m.protocol = "tcp"
  /\ m.appProtocol = "http"

\* C8 as stated: the main port, if present, is the first mapping, named
\* default; each entry of additional_ports contributes one mapping under its
\* given name, in order; the key is absent when no port is configured.
C8_AsStated ==
  Generated =>
    LET off == IF config.port # Missing THEN 1 ELSE 0 IN
      /\ Len(AppPortMappings) = off + Len(AdditionalPortEntries)
      /\ config.port # Missing =>
           /\ AppPortMappings[1].name = "default"
           /\ AppPortMappings[1].containerPort = config.port
      /\ \A i \in 1..Len(AdditionalPortEntries) :
           /\ AdditionalPortEntries[i].t = "map"
           /\ Len(AdditionalPortEntries[i].v) = 1
           /\ AppPortMappings[off + i].name = AdditionalPortEntries[i].v[1][1]
           /\ AppPortMappings[off + i].containerPort = AdditionalPortEntries[i].v[1][2]
      /\ \A i \in 1..Len(AppPortMappings) : PortShape(AppPortMappings[i])
      /\ ("portMappings" \in DOMAIN Container("app"))
           <=> (config.port # Missing \/ AdditionalPortEntries # <<>>)

\* the <<name, port>> pairs of the entries that are mappings, in order
RECURSIVE NamedPorts(_)
NamedPorts(entries) ==
  IF entries = <<>> THEN <<>>
  ELSE (IF Head(entries).t = "map" THEN Head(entries).v ELSE <<>>)
         \o NamedPorts(Tail(entries))

\* C8 amended: the main port, if set to a non-zero value, is the first mapping,
\* named default; each entry of additional_ports that is a mapping contributes
\* one mapping per name: port pair it holds (one for a single-pair entry),
\* under that name and in order, and an entry that is not a mapping
\* contributes none; every mapping has containerPort = hostPort = the given
\* port, protocol tcp, appProtocol http; the key is absent when no mapping
\* results.
C8_PortMappings ==
  Generated =>
    LET expected ==
          (IF config.port \notin {Missing, Num(0)}
             THEN <<<<"default", config.port>>>> ELSE <<>>)
          \o NamedPorts(AdditionalPortEntries)
    IN /\ [i \in 1..Len(AppPortMappings) |->
             <<AppPortMappings[i].name, AppPortMappings[i].containerPort>>] = expected
       /\ \A i \in 1..Len(AppPortMappings) : PortShape(AppPortMappings[i])
       /\ ("portMappings" \in DOMAIN Container("app")) <=> (expected # <<>>)

C8_Witness ==
  /\ Generated
  /\ config.port = Num(8080)
  /\ AdditionalPortEntries = <<Num(9090), Map(<<<<"metrics", Num(9090)>>>>)>>
  /\ Len(AppPortMappings) = 2
  /\ AppPortMappings[1].name = "default"
  /\ AppPortMappings[2].name = "metrics"

C8_WitnessNoKey ==
  /\ Generated
  /\ config.port = Num(0)
  /\ AdditionalPortEntries = <<Num(9090)>>
  /\ "portMappings" \notin DOMAIN Container("app")

\* C10 (checked under SpecExit): the task-definition CLI exits 0 exactly when loading, generation and
\* the write all completed; a run in which any of them raised prints a message
\* to stderr and exits 1; a run stops nowhere but at one of these two exits.
AllStepsCompleted ==
  /\ config # NoDoc
  /\ main_td # NoDoc
  /\ out_file.state = "written"

C10_ExitCodes ==
  /\ pc = "exited" =>
       /\ exit_code \in {<<0>>, <<1>>}
       /\ exit_code = <<0>> <=> AllStepsCompleted
       /\ exit_code = <<0>> <=> exc = <<>>
       /\ exit_code = <<1>> => stderr = <<"Error generating task definition">>
       /\ exit_code = <<0>> => stderr = <<>>
  /\ pc # "exited" => (exit_code = <<>> /\ ENABLED Next)

C10_Witness ==
  /\ pc = "exited"
  /\ exc = <<"AttributeError">>
  /\ exit_code = <<1>>
  /\ stderr # <<>>
  /\ out_file = Untouched

C10_WitnessSuccess ==
  /\ pc = "exited"
  /\ exit_code = <<0>>
  /\ out_file.state = "written"

C10_WitnessWriteFailure ==
  /\ pc = "exited"
  /\ exc = <<"OSError">>
  /\ exit_code = <<1>>

\* C9.  A number as tenths, so that 2, 2.0 and "2.0" can be compared.
Tenths(x) == IF x.t = "int" THEN x.v * 10 ELSE x.whole * 10 + x.tenths

DigitValue(c) == (CHOOSE i \in 1..10 : DigitChars[i] = c) - 1

RECURSIVE DigitsToInt(_)
DigitsToInt(s) ==
  IF s = <<>> THEN 0
  ELSE DigitsToInt(SubSeq(s, 1, Len(s) - 1)) * 10 + DigitValue(s[Len(s)])

\* the number a Terraform default written as the text s denotes, as tenths
HclTenths(s) ==
  IF \E k \in 1..Len(s) : s[k] = "."
    THEN LET k == CHOOSE i \in 1..Len(s) : s[i] = "." IN
           DigitsToInt(SubSeq(s, 1, k - 1)) * 10 + DigitsToInt(SubSeq(s, k + 1, Len(s)))
    ELSE DigitsToInt(s) * 10

\* the value retryPolicy gives for key, the default when the key is missing
RetryValue(key, default) ==
  IF wf_config.retryPolicy = Missing
       \/ \A i \in 1..Len(wf_config.retryPolicy.v) : wf_config.retryPolicy.v[i][1] # key
    THEN default
    ELSE LET i == CHOOSE j \in 1..Len(wf_config.retryPolicy.v) :
                    wf_config.retryPolicy.v[j][1] = key
         IN Tenths(wf_config.retryPolicy.v[i][2])

TerraformRetry == wf_main_tf.content.state_machine.Retry

\* the value of the variable the Terraform Retry block refers to under field
TerraformRetryValue(field) ==
  HclTenths(wf_main_tf.content.variables[TerraformRetry[1][field]])

SamRetry == wf_template.content.Definition.Retry

\* C9: the one Retry rule of RunTask matches States.TaskFailed and takes
\* MaxAttempts, BackoffRate and IntervalSeconds from retryPolicy, each with its
\* own default 3, 2.0, 60 when its key is missing, in the Terraform rendering
\* (through the variable defaults the Retry block refers to) and in the SAM
\* rendering alike.
C9_RetryRule ==
  /\ wf_main_tf.state = "written" =>
       /\ Len(TerraformRetry) = 1
       /\ TerraformRetry[1].ErrorEquals = <<"States.TaskFailed">>
       /\ TerraformRetryValue("MaxAttempts") = RetryValue("maxAttempts", Tenths(Num(3)))
       /\ TerraformRetryValue("BackoffRate") = RetryValue("backoffRate", Tenths(Flt(2, 0)))
       /\ TerraformRetryValue("IntervalSeconds") = RetryValue("intervalSeconds", Tenths(Num(60)))
  /\ wf_template.state = "written" =>
       /\ Len(SamRetry) = 1
       /\ SamRetry[1].ErrorEquals = <<"States.TaskFailed">>
       /\ Tenths(SamRetry[1].MaxAttempts) = RetryValue("maxAttempts", Tenths(Num(3)))
       /\ Tenths(SamRetry[1].BackoffRate) = RetryValue("backoffRate", Tenths(Flt(2, 0)))
       /\ Tenths(SamRetry[1].IntervalSeconds) = RetryValue("intervalSeconds", Tenths(Num(60)))
       /\ wf_main_tf.state = "written"
       /\ Tenths(SamRetry[1].MaxAttempts) = TerraformRetryValue("MaxAttempts")
       /\ Tenths(SamRetry[1].BackoffRate) = TerraformRetryValue("BackoffRate")
       /\ Tenths(SamRetry[1].IntervalSeconds) = TerraformRetryValue("IntervalSeconds")

\* retryPolicy {maxAttempts: 5} gives 5 / 2.0 / 60 in both renderings
C9_Witness ==
  /\ wf_template.state = "written"
  /\ wf_main_tf.state = "written"
  /\ wf_config.retryPolicy = Map(<<<<"maxAttempts", Num(5)>>>>)
  /\ SamRetry[1].MaxAttempts = Num(5)
  /\ SamRetry[1].BackoffRate = Flt(2, 0)
  /\ SamRetry[1].IntervalSeconds = Num(60)
  /\ wf_main_tf.content.variables.retry_attempts = <<"5">>
  /\ wf_main_tf.content.variables.retry_backoff_rate = <<"2", ".", "0">>
  /\ wf_main_tf.content.variables.retry_interval_seconds = <<"6", "0">>

\* ---- C11: parent directories of the output paths ----

\* C11 (as stated, task-definition half): when the parent directory of the
\* --output path does not exist, the document is still written; no run fails
\* because that directory is missing.
C11_AsStated ==
  (Generated /\ ~out_parent_exists /\ pc = "exited") =>
    /\ out_file.state = "written"
    /\ exit_code = <<0>>

\* C11 (workflow half): whenever a template file is being written, the output
\* directory exists, also when it did not exist at the start of the run.
C11_WorkflowDirs ==
  (wf_pc \in {"write_tf", "write_sam", "done"} \/ wf_main_tf # Untouched) =>
    wf_dir_exists

\* ---- C12: the order of the steps of the workflow builder ----

WfLoaded == wf_config # NoDoc

WfLoadFailed == wf_config_file.t # "doc"

WfPrinted(line) == \E i \in 1..Len(wf_stdout) : wf_stdout[i] = line

\* what holds of every state of a run: a file has been touched only after the
\* steps before it succeeded, and "Done!" only after both files were written
WfOrderOfEffects ==
  /\ wf_main_tf # Untouched => WfLoaded /\ wf_dir_exists
  /\ wf_template # Untouched => wf_main_tf.state = "written"
  /\ WfPrinted("Done!") =>
       /\ wf_main_tf.state = "written"
       /\ wf_template.state = "written"
       /\ wf_exit_code = <<0>>
  /\ WfLoadFailed /\ wf_pc = "exited" =>
       /\ wf_exit_code = <<1>>
       /\ wf_main_tf = Untouched
       /\ wf_template = Untouched
       /\ ~WfPrinted("Done!")

\* what holds of every step of a run: the directory is created only with the
\* config loaded and before either file is touched, main.tf is written before
\* template.yaml, and a load failure ends the run in that very step, with the
\* directory and the files as they were
WfOrderOfSteps ==
  /\ wf_dir_exists' # wf_dir_exists =>
       WfLoaded /\ wf_main_tf = Untouched /\ wf_template = Untouched
  /\ wf_main_tf' # wf_main_tf =>
       WfLoaded /\ wf_dir_exists /\ wf_template = Untouched
  /\ wf_template' # wf_template => wf_main_tf.state = "written"
  /\ WfPrinted("Done!")' /\ ~WfPrinted("Done!") =>
       wf_main_tf.state = "written" /\ wf_template.state = "written"
  /\ WfLoadFailed =>
       /\ wf_pc' = "exited"
       /\ wf_exit_code' = <<1>>
       /\ wf_dir_exists' = wf_dir_exists
       /\ wf_main_tf' = Untouched
       /\ wf_template' = Untouched

\* C12: a run of the workflow builder goes load config, create the output
\* directory, write main.tf, write template.yaml, print "Done!", in that
\* order; "Done!" is printed only with both files written; a config that
\* cannot be loaded ends the run at once with exit status 1, before the
\* directory is created or a file is written.
C12_StepOrder == []WfOrderOfEffects /\ [][WfOrderOfSteps]_vars

\* a full run that created the directory and printed "Done!"
C12_Witness ==
  /\ wf_pc = "exited"
  /\ WfPrinted("Done!")
  /\ wf_main_tf.state = "written"
  /\ wf_template.state = "written"
  /\ wf_dir_exists

\* a config that could not be loaded, where the directory did not exist
C12_WitnessLoadFailure ==
  /\ wf_pc = "exited"
  /\ WfLoadFailed
  /\ ~wf_dir_exists
  /\ wf_exit_code = <<1>>

\* ---- C13: the output file and the document ----

\* the run ended in the handler before generate_task_definition returned
FailedBeforeDocument == pc \in {"except", "exited"} /\ ~Generated

\* what holds of every state: the file has been opened only with the complete
\* document returned, what is in the file is that document, and a failure of
\* the load or of the assembly has left the file alone
WriteOnceState ==
  /\ out_file # Untouched =>
       /\ Generated
       /\ main_td = generate_task_definition(config, args).doc
  /\ out_file.state = "written" => out_file.doc = main_td
  /\ FailedBeforeDocument => out_file = Untouched

\* what holds of every step: the returned document never changes, and the
\* file changes only once the document has been returned
WriteOnceStep ==
  /\ Generated => main_td' = main_td
  /\ out_file' # out_file => Generated

\* C13: the output file is opened only after generate_task_definition has
\* returned the complete document, the document does not change between its
\* return and its serialization, and an exception raised while loading the
\* config or assembling the document leaves the file at the --output path
\* untouched, neither created nor truncated.
C13_WriteOnce == []WriteOnceState /\ [][WriteOnceStep]_vars

\* the assembly raised, in a run whose output file could have been opened
C13_Witness ==
  /\ pc = "exited"
  /\ exc = <<"AttributeError">>
  /\ ~Generated
  /\ out_parent_exists
  /\ out_file = Untouched

\* the load raised
C13_WitnessLoad ==
  /\ pc = "exited"
  /\ exc = <<"YAMLError">>
  /\ out_parent_exists
  /\ out_file = Untouched

\* the document was written as it was returned
C13_WitnessWritten ==
  /\ out_file.state = "written"
  /\ out_file.doc = generate_task_definition(config, args).doc

\* ---- C14: referential integrity of the document ----

MountPointsOf(c) == IF "mountPoints" \in DOMAIN c THEN c.mountPoints ELSE <<>>

\* the names of the volumes the document declares
DeclaredVolumes ==
  IF "volumes" \in DOMAIN main_td
    THEN {main_td.volumes[i].name : i \in 1..Len(main_td.volumes)}
    ELSE {}

\* the places in the container list where a container named n stands
PositionsOf(n) == {i \in 1..Len(Containers) : Containers[i].name = n}

\* C14: in every generated document each containerName in a dependsOn is the
\* name of a container of the document, other than the dependant, and the init
\* container stands before whatever depends on it; each mountPoints
\* sourceVolume is the name of a volume in the document's "volumes"; and app
\* is the one container with essential = true.
C14_ReferentialIntegrity ==
  Generated =>
    /\ \A i \in 1..Len(Containers) :
         /\ \A j \in 1..Len(DependsOnOf(Containers[i])) :
              LET dep == DependsOnOf(Containers[i])[j].containerName IN
                /\ PositionsOf(dep) # {}
                /\ i \notin PositionsOf(dep)
                /\ dep = InitDependency.containerName =>
                     \A k \in PositionsOf(dep) : k < i
         /\ \A j \in 1..Len(MountPointsOf(Containers[i])) :
              MountPointsOf(Containers[i])[j].sourceVolume \in DeclaredVolumes
         /\ Containers[i].essential <=> Containers[i].name = "app"
    /\ PositionsOf("app") # {}

\* secret_files, fluent-bit and otel all enabled: app depends on two
\* containers of the document, and app and the init container mount the
\* declared volume
C14_Witness ==
  /\ Generated
  /\ SecretFilesNonEmpty
  /\ FluentBitEnabled
  /\ OtelEnabled
  /\ Len(Containers) = 4
  /\ Len(DependsOnOf(Container("app"))) = 2
  /\ MountPointsOf(Container("app")) # <<>>
  /\ MountPointsOf(Container("init-container-for-secret-files")) # <<>>
  /\ DeclaredVolumes = {"shared-volume"}
====
